---- MODULE Spec2Model ----
(***************************************************************************)
(* A model of the birthday pipeline of gramps-ha                           *)
(* (custom_components/gramps_ha/grampsweb_api.py): the event reference     *)
(* resolver, the dateval parser, the person classifier, the birthday       *)
(* calculator and get_birthdays itself.                                    *)
(*                                                                         *)
(* Encoding of the Python values:                                          *)
(*  - a str is a sequence of one-character strings (<<"B","i">>), so that  *)
(*    lower(), strip(), rstrip("/"), split("/") and "in" act on characters;*)
(*    a token such as "b1" stands for a run of characters without "/",     *)
(*    " " or upper-case letters;                                           *)
(*  - a JSON scalar is a record [t, s, n]: t is "absent" (the key is       *)
(*    missing), "null", "str" (value s) or "int" (value n);                *)
(*  - a date is a record [y, m, d]; None is NoDate;                        *)
(*  - an exception is an explicit outcome of the operator that raises it,  *)
(*    handled where the code's try/except handles it.                      *)
(***************************************************************************)
EXTENDS Integers, Sequences, FiniteSets, TLC

VARIABLES
    pc,             \* position of get_birthdays: idle/start/diag/filter/loop/sort/done/raised
    all_people,     \* upstream: the payload of GET people/
    surname_filter, \* GrampsWebAPI.surname_filter
    today,          \* get_birthdays: today, NoDate until line 201 reads the clock
    limit,          \* the limit argument of get_birthdays: the default until line 264 uses the caller's
    people_data,    \* get_birthdays: the people kept by the pre-filter (indexes into all_people)
    idx,            \* get_birthdays: position of the running for loop
    birthdays,      \* get_birthdays: the list being built
    result,         \* what get_birthdays returned
    verdict,        \* ghost: per input person, how the loop of lines 224-255 left it
    people_failed,  \* ghost: the GET people/ call of this cycle failed
    fetch_failed,   \* ghost: some GET events/<handle> call of this cycle failed
    count_calls,    \* ghost: the specification counts the calls (SpecCalls does)
    people_calls,   \* ghost: the GET people/ calls this call of get_birthdays issued
    fetch_calls,    \* ghost: per input person, the GET events/<handle> calls issued for it
    data,           \* GrampsWebCoordinator.data: what the host holds
    cycle,          \* the refresh cycles completed
    prev_nonempty,  \* ghost: the host held records before the last refresh
    parse,          \* _parse_dateval applied to an input: [dateval, out, done]
    classify,       \* the person classifier applied to an input: [person, fails, has, birth, alive, done]
    calc            \* _calculate_next_birthday applied to an input: [birth, today, out, done]

vars == <<pc, all_people, surname_filter, today, limit, people_data, idx, birthdays,
          result, verdict, people_failed, fetch_failed, count_calls, people_calls,
          fetch_calls, data, cycle, prev_nonempty, parse, classify, calc>>

host_vars == <<data, cycle, prev_nonempty>>

pipeline_vars == <<pc, all_people, surname_filter, today, limit, people_data, idx,
                   birthdays, result, verdict, people_failed, fetch_failed,
                   count_calls, people_calls, fetch_calls, host_vars>>

----------------------------------------------------------------------------
(* Bounds of the model *)

\* longest people/ payload of the pipeline specifications
MaxPeople == 2
\* longest event_ref_list of the classifier specification
MaxEvents == 2
\* refresh cycles of the coordinator specification
MaxCycles == 2

----------------------------------------------------------------------------
(* Program constants *)

\* DataUpdateCoordinator.data before the first refresh: None
NoData == [t |-> "none", v |-> <<>>]
\* DataUpdateCoordinator.data after a refresh: what _async_update_data returned
HeldData(v) == [t |-> "list", v |-> v]

\* limit=50 of the signature of get_birthdays
DefaultLimit == 50

----------------------------------------------------------------------------
(* str *)

UpperCase == <<"A", "B", "D", "K", "U">>
LowerCase == <<"a", "b", "d", "k", "u">>

\* str.lower() on one character
LowerChar(c) ==
    IF \E i \in 1..Len(UpperCase) : UpperCase[i] = c
    THEN LowerCase[CHOOSE i \in 1..Len(UpperCase) : UpperCase[i] = c]
    ELSE c

\* str.lower()
Lower(s) == [i \in 1..Len(s) |-> LowerChar(s[i])]

\* sub in s
Contains(sub, s) ==
    \E i \in 0..(Len(s) - Len(sub)) : SubSeq(s, i + 1, i + Len(sub)) = sub

RECURSIVE RStrip(_, _)
\* str.rstrip(c)
RStrip(s, c) ==
    IF s # <<>> /\ s[Len(s)] = c THEN RStrip(SubSeq(s, 1, Len(s) - 1), c) ELSE s

RECURSIVE LStrip(_, _)
\* str.lstrip(c)
LStrip(s, c) ==
    IF s # <<>> /\ s[1] = c THEN LStrip(Tail(s), c) ELSE s

\* str.strip() (the only whitespace of the model is " ")
Strip(s) == LStrip(RStrip(s, " "), " ")

RECURSIVE LastSegment(_)
\* s.split("/")[-1]: what follows the last "/"
LastSegment(s) ==
    IF s = <<>> \/ s[Len(s)] = "/" THEN <<>>
    ELSE Append(LastSegment(SubSeq(s, 1, Len(s) - 1)), s[Len(s)])

\* handle.rstrip("/").split("/")[-1] when "/" in handle
CleanHandle(handle) ==
    IF Contains(<<"/">>, handle) THEN LastSegment(RStrip(handle, "/")) ELSE handle

----------------------------------------------------------------------------
(* JSON scalars *)

Absent == [t |-> "absent", s |-> <<>>, n |-> 0]
Null   == [t |-> "null", s |-> <<>>, n |-> 0]
JStr(s) == [t |-> "str", s |-> s, n |-> 0]
JInt(n) == [t |-> "int", s |-> <<>>, n |-> n]

\* Python truth value of a scalar
Truthy(v) == (v.t = "str" /\ v.s # <<>>) \/ (v.t = "int" /\ v.n # 0)

\* dict.get(key, default)
GetOr(v, default) == IF v.t = "absent" THEN default ELSE v

----------------------------------------------------------------------------
(* datetime.date *)

NoDate == [y |-> 0, m |-> 0, d |-> 0]

IsLeap(y) == (y % 4 = 0 /\ y % 100 # 0) \/ y % 400 = 0

DaysInMonth(y, m) ==
    IF m = 2 THEN (IF IsLeap(y) THEN 29 ELSE 28)
    ELSE IF m \in {4, 6, 9, 11} THEN 30 ELSE 31

\* date(year, month, day) returns; otherwise it raises ValueError
ValidDate(y, m, d) ==
    /\ 1 <= y /\ y <= 9999
    /\ 1 <= m /\ m <= 12
    /\ 1 <= d /\ d <= DaysInMonth(y, m)

\* a < b on dates
DateLess(a, b) ==
    \/ a.y < b.y
    \/ a.y = b.y /\ a.m < b.m
    \/ a.y = b.y /\ a.m = b.m /\ a.d < b.d

RECURSIVE DaysBeforeMonth(_, _)
DaysBeforeMonth(y, m) ==
    IF m <= 1 THEN 0 ELSE DaysBeforeMonth(y, m - 1) + DaysInMonth(y, m - 1)

\* date.toordinal(): days since 0001-01-01, that day being 1
Ordinal(dt) ==
    LET py == dt.y - 1
    IN  py * 365 + (py \div 4) - (py \div 100) + (py \div 400)
        + DaysBeforeMonth(dt.y, dt.m) + dt.d

\* (a - b).days
DaysBetween(a, b) == Ordinal(a) - Ordinal(b)

DigitChar == <<"0", "1", "2", "3", "4", "5", "6", "7", "8", "9">>

Digits(n, width) ==
    [i \in 1..width |-> DigitChar[((n \div (10 ^ (width - i))) % 10) + 1]]

\* date.isoformat(): YYYY-MM-DD
isoformat(dt) == Digits(dt.y, 4) \o <<"-">> \o Digits(dt.m, 2) \o <<"-">> \o Digits(dt.d, 2)

DigitValue(c) == (CHOOSE i \in 1..10 : DigitChar[i] = c) - 1

RECURSIVE Number(_)
Number(s) == IF s = <<>> THEN 0 ELSE Number(SubSeq(s, 1, Len(s) - 1)) * 10 + DigitValue(s[Len(s)])

\* date.fromisoformat on the output of isoformat
fromisoformat(s) ==
    [y |-> Number(SubSeq(s, 1, 4)), m |-> Number(SubSeq(s, 6, 7)), d |-> Number(SubSeq(s, 9, 10))]

----------------------------------------------------------------------------
(* _parse_dateval *)

\* (y_idx, m_idx, d_idx), 1-based, swapped so that the third layout comes second
\* the year read from the first element by every layout
combinations_year_first ==
    << [y |-> 1, m |-> 2, d |-> 3],
       [y |-> 1, m |-> 2, d |-> 3],
       [y |-> 1, m |-> 3, d |-> 2] >>

combinations_swapped ==
    << [y |-> 3, m |-> 2, d |-> 1],
       [y |-> 1, m |-> 3, d |-> 2],
       [y |-> 1, m |-> 2, d |-> 3] >>

\* (y_idx, m_idx, d_idx) of lines 113-117, 1-based
combinations ==
    << [y |-> 3, m |-> 2, d |-> 1],    \* dateval = [day, month, year]
       [y |-> 1, m |-> 2, d |-> 3],    \* dateval = [year, month, day]
       [y |-> 1, m |-> 3, d |-> 2] >>  \* dateval = [year, day, month]

RECURSIVE try_combinations_unvalidated(_, _)
\* a date constructor that accepts every day of 1..31 in every month and every year
try_combinations_unvalidated(vals, k) ==
    IF k > Len(combinations) THEN NoDate
    ELSE LET year  == vals[combinations[k].y]
             month == vals[combinations[k].m]
             day   == vals[combinations[k].d]
         IN  IF year < 100 \/ ~(1 <= month /\ month <= 12 /\ 1 <= day /\ day <= 31)
             THEN try_combinations_unvalidated(vals, k + 1)
             ELSE [y |-> year, m |-> month, d |-> day]

RECURSIVE TryCombinations(_, _)
\* the for loop of lines 119-125, from combination k on
TryCombinations(vals, k) ==
    IF k > Len(combinations) THEN NoDate
    ELSE LET year  == vals[combinations[k].y]
             month == vals[combinations[k].m]
             day   == vals[combinations[k].d]
         IN  IF year < 100 THEN TryCombinations(vals, k + 1)
             ELSE IF ~(1 <= month /\ month <= 12 /\ 1 <= day /\ day <= 31)
                  THEN TryCombinations(vals, k + 1)
             ELSE IF ValidDate(year, month, day)
                  THEN [y |-> year, m |-> month, d |-> day]
             ELSE NoDate   \* date() raised ValueError: except Exception, line 128

\* the dateval is a list of integers
_parse_dateval(dateval) ==
    LET vals == SubSeq(dateval, 1, IF Len(dateval) < 3 THEN Len(dateval) ELSE 3)
    IN  IF Len(vals) < 3 THEN NoDate ELSE TryCombinations(vals, 1)

----------------------------------------------------------------------------
(* The upstream event store: GET events/<handle> *)

Str_birth == <<"b", "i", "r", "t", "h">>
Str_Birth == <<"B", "i", "r", "t", "h">>
Str_Death == <<"D", "e", "a", "t", "h">>

EvType(t, s) == [t |-> t, s |-> s]
EvDate(t, dateval) == [t |-> t, dateval |-> dateval]

EventHandles == {<<"b1">>, <<"b2">>, <<"bl">>, <<"d1">>, <<"bx">>, <<"bn">>, <<"nt">>}

\* the event records the upstream serves; any other handle is a 404
EventStore ==
    [h \in EventHandles |->
        CASE h = <<"b1">> -> [type |-> EvType("dict", Str_Birth), date |-> EvDate("dict", <<10, 7, 1990>>)]
          [] h = <<"b2">> -> [type |-> EvType("str", Str_birth), date |-> EvDate("dict", <<1985, 7, 1, 0>>)]
          [] h = <<"bl">> -> [type |-> EvType("dict", Str_Birth), date |-> EvDate("dict", <<29, 2, 2000>>)]
          [] h = <<"d1">> -> [type |-> EvType("dict", Str_Death), date |-> EvDate("dict", <<5, 3, 2010>>)]
          [] h = <<"bx">> -> [type |-> EvType("dict", Str_Birth), date |-> EvDate("dict", <<0, 0, 0>>)]
          [] h = <<"bn">> -> [type |-> EvType("dict", Str_Birth), date |-> EvDate("null", <<>>)]
          [] h = <<"nt">> -> [type |-> EvType("absent", <<>>), date |-> EvDate("dict", <<2001, 12, 24>>)]]

\* type_string of lines 172-173 and 350-351: the "string" entry of a dict type
\* ("" when the type is missing), str(type) otherwise
TypeString(event_data) ==
    IF event_data.type.t = "absent" THEN <<>> ELSE event_data.type.s

----------------------------------------------------------------------------
(* Event references and _resolve_event_handle *)

\* an entry of event_ref_list: a mapping with the keys ref, handle, hlink (each a
\* JSON scalar), null, or a non-empty string (not a mapping)
RefMap(ref, handle, hlink) == [t |-> "map", ref |-> ref, handle |-> handle, hlink |-> hlink]
RefNull == [t |-> "null", ref |-> Absent, handle |-> Absent, hlink |-> Absent]
RefStr  == [t |-> "str", ref |-> Absent, handle |-> Absent, hlink |-> Absent]

\* the result of a call: raised, or the handle returned (<<>> for None and for "")
Raised == [raised |-> TRUE, handle |-> <<>>]
Returned(handle) == [raised |-> FALSE, handle |-> handle]

_resolve_event_handle(event_ref) ==
    IF event_ref.t = "null" THEN Returned(<<>>)
    ELSE IF event_ref.t # "map" THEN Raised      \* str has no .get: AttributeError
    ELSE IF event_ref.ref.t = "absent" /\ event_ref.handle.t = "absent"
            /\ event_ref.hlink.t = "absent" THEN Returned(<<>>)   \* not {}
    ELSE LET handle == IF Truthy(event_ref.ref) THEN event_ref.ref
                       ELSE IF Truthy(event_ref.handle) THEN event_ref.handle
                       ELSE IF Truthy(event_ref.hlink) THEN event_ref.hlink
                       ELSE Null
         IN  IF ~Truthy(handle) \/ handle.t # "str" THEN Returned(<<>>)
             ELSE Returned(CleanHandle(handle.s))

----------------------------------------------------------------------------
(* _fetch_event_date *)

\* fails: this GET events/<handle> call fails in transport
_fetch_event_date(event_handle, require_birth, fails) ==
    IF event_handle = <<>> THEN NoDate
    ELSE LET handle == CleanHandle(event_handle)
         IN  IF fails \/ handle \notin EventHandles THEN NoDate   \* _get raised: line 362
             ELSE LET event_data == EventStore[handle]
                  IN  IF require_birth /\ ~Contains(Str_birth, Lower(TypeString(event_data)))
                      THEN NoDate
                      ELSE IF event_data.date.t = "null" THEN NoDate  \* None.get: line 362
                      ELSE _parse_dateval(event_data.date.dateval)

----------------------------------------------------------------------------
(* Person records and the classifier *)

ListAbsent == [t |-> "absent", v |-> <<>>]
ListNull   == [t |-> "null", v |-> <<>>]
JList(v)   == [t |-> "list", v |-> v]

NameAbsent == [t |-> "absent", first_name |-> <<>>, surname_list |-> <<>>]
Name(first_name, surname_list) ==
    [t |-> "dict", first_name |-> first_name, surname_list |-> surname_list]

Person(primary_name, event_ref_list, birth_ref_index, death_ref_index) ==
    [primary_name |-> primary_name, event_ref_list |-> event_ref_list,
     birth_ref_index |-> birth_ref_index, death_ref_index |-> death_ref_index]

\* the fetch calls of one classifier call are numbered by the candidate they are
\* made for: 0 for the birth_ref_index entry, j for the j-th entry of the scan;
\* fails is the set of the numbers whose call fails

RECURSIVE has_scan(_, _, _)
\* the for loop of lines 286-295 from entry j on: TRUE on the first parsed date
has_scan(event_ref_list, j, fails) ==
    IF j > Len(event_ref_list) THEN FALSE
    ELSE LET r == _resolve_event_handle(event_ref_list[j])
         IN  IF r.raised THEN FALSE     \* except Exception, line 299
             ELSE IF r.handle = <<>> THEN has_scan(event_ref_list, j + 1, fails)
             ELSE IF _fetch_event_date(r.handle, FALSE, j \in fails) # NoDate THEN TRUE
             ELSE has_scan(event_ref_list, j + 1, fails)

\* a _has_birth_date that asks for a birth event, as _extract_birth_date does
has_birth_date_strict(person, fails) ==
    LET erl == person.event_ref_list.v
        bri == GetOr(person.birth_ref_index, JInt(-1))
    IN  \E j \in 0..Len(erl) :
            LET e == IF j = 0 THEN bri.n + 1 ELSE j
            IN  /\ e \in 1..Len(erl)
                /\ ~_resolve_event_handle(erl[e]).raised
                /\ _fetch_event_date(_resolve_event_handle(erl[e]).handle, TRUE, j \in fails) # NoDate

_has_birth_date(person, fails) ==
    LET birth_ref_index == GetOr(person.birth_ref_index, JInt(-1))
        event_ref_list  == person.event_ref_list
    IN  IF birth_ref_index.t # "int" THEN FALSE               \* None >= 0: TypeError, line 299
        ELSE IF birth_ref_index.n >= 0 /\ event_ref_list.t = "null" THEN FALSE  \* len(None)
        ELSE LET first ==
                   IF birth_ref_index.n >= 0 /\ birth_ref_index.n < Len(event_ref_list.v)
                   THEN LET r == _resolve_event_handle(event_ref_list.v[birth_ref_index.n + 1])
                        IN  IF r.raised THEN "raised"
                            ELSE IF r.handle # <<>>
                                    /\ _fetch_event_date(r.handle, FALSE, 0 \in fails) # NoDate
                                 THEN "found"
                            ELSE "next"
                   ELSE "next"
             IN  IF first = "found" THEN TRUE
                 ELSE IF first = "raised" THEN FALSE
                 ELSE IF event_ref_list.t = "null" THEN FALSE  \* for ... in None: TypeError
                 ELSE has_scan(event_ref_list.v, 1, fails)

RECURSIVE extract_scan(_, _, _)
\* the for loop of lines 318-328 from entry j on: the first parsed birth date
extract_scan(event_ref_list, j, fails) ==
    IF j > Len(event_ref_list) THEN NoDate
    ELSE LET r == _resolve_event_handle(event_ref_list[j])
         IN  IF r.raised THEN NoDate    \* except Exception, line 332
             ELSE IF r.handle = <<>> THEN extract_scan(event_ref_list, j + 1, fails)
             ELSE LET parsed == _fetch_event_date(r.handle, TRUE, j \in fails)
                  IN  IF parsed # NoDate THEN parsed
                      ELSE extract_scan(event_ref_list, j + 1, fails)

\* an _extract_birth_date that gives up at the first candidate that yields no date
extract_birth_date_first_only(person, fails) ==
    LET erl == person.event_ref_list.v
        bri == GetOr(person.birth_ref_index, JInt(-1))
        e   == IF bri.n >= 0 /\ bri.n < Len(erl) THEN bri.n + 1 ELSE 1
    IN  IF erl = <<>> THEN NoDate
        ELSE _fetch_event_date(_resolve_event_handle(erl[e]).handle, TRUE,
                               (IF e = bri.n + 1 THEN 0 ELSE 1) \in fails)

_extract_birth_date(person, fails) ==
    LET birth_ref_index == GetOr(person.birth_ref_index, JInt(-1))
        event_ref_list  == person.event_ref_list
    IN  IF birth_ref_index.t # "int" THEN NoDate              \* None >= 0: TypeError, line 332
        ELSE IF birth_ref_index.n >= 0 /\ event_ref_list.t = "null" THEN NoDate  \* len(None)
        ELSE LET first ==
                   IF birth_ref_index.n >= 0 /\ birth_ref_index.n < Len(event_ref_list.v)
                   THEN LET r == _resolve_event_handle(event_ref_list.v[birth_ref_index.n + 1])
                        IN  IF r.raised THEN [raised |-> TRUE, parsed |-> NoDate]
                            ELSE IF r.handle # <<>>
                                 THEN [raised |-> FALSE,
                                       parsed |-> _fetch_event_date(r.handle, TRUE, 0 \in fails)]
                            ELSE [raised |-> FALSE, parsed |-> NoDate]
                   ELSE [raised |-> FALSE, parsed |-> NoDate]
             IN  IF first.parsed # NoDate THEN first.parsed
                 ELSE IF first.raised THEN NoDate
                 ELSE IF event_ref_list.t = "null" THEN NoDate  \* for ... in None: TypeError
                 ELSE extract_scan(event_ref_list.v, 1, fails)

RECURSIVE scan_gets(_, _, _, _)
\* the GET events/<handle> calls issued by the for loop of _has_birth_date (lines
\* 285-294) or, with require_birth, of _extract_birth_date (lines 317-327), from
\* entry j on: one per entry that resolves, until a date is parsed
scan_gets(event_ref_list, j, require_birth, fails) ==
    IF j > Len(event_ref_list) THEN 0
    ELSE LET r == _resolve_event_handle(event_ref_list[j])
         IN  IF r.raised THEN 0
             ELSE IF r.handle = <<>> THEN scan_gets(event_ref_list, j + 1, require_birth, fails)
             ELSE IF _fetch_event_date(r.handle, require_birth, j \in fails) # NoDate THEN 1
             ELSE 1 + scan_gets(event_ref_list, j + 1, require_birth, fails)

\* the GET events/<handle> calls one call of _has_birth_date or, with require_birth,
\* of _extract_birth_date issues: the birth_ref_index entry (lines 278-283, 311-315),
\* then the scan
classifier_gets(person, require_birth, fails) ==
    LET birth_ref_index == GetOr(person.birth_ref_index, JInt(-1))
        event_ref_list  == person.event_ref_list
    IN  IF birth_ref_index.t # "int" THEN 0
        ELSE IF birth_ref_index.n >= 0 /\ event_ref_list.t = "null" THEN 0
        ELSE IF birth_ref_index.n >= 0 /\ birth_ref_index.n < Len(event_ref_list.v)
             THEN LET r == _resolve_event_handle(event_ref_list.v[birth_ref_index.n + 1])
                  IN  IF r.raised THEN 0
                      ELSE IF r.handle = <<>>
                           THEN scan_gets(event_ref_list.v, 1, require_birth, fails)
                      ELSE IF _fetch_event_date(r.handle, require_birth, 0 \in fails) # NoDate
                           THEN 1
                      ELSE 1 + scan_gets(event_ref_list.v, 1, require_birth, fails)
        ELSE IF event_ref_list.t = "null" THEN 0
        ELSE scan_gets(event_ref_list.v, 1, require_birth, fails)

\* deceased only when death_ref_index is an index into event_ref_list
is_person_alive_unless_resolvable(person) ==
    LET death_ref_index == GetOr(person.death_ref_index, JInt(-1))
    IN  ~(death_ref_index.t = "int" /\ 0 <= death_ref_index.n
          /\ death_ref_index.n < Len(person.event_ref_list.v))

\* a death_ref_index of 0 taken for "no death event"
is_person_alive_nonpositive(person) ==
    LET death_ref_index == GetOr(person.death_ref_index, JInt(-1))
    IN  death_ref_index.t = "int" /\ death_ref_index.n <= 0

_is_person_alive(person) ==
    LET death_ref_index == GetOr(person.death_ref_index, JInt(-1))
    IN  death_ref_index.t = "int" /\ death_ref_index.n = -1

----------------------------------------------------------------------------
(* _calculate_next_birthday *)

\* None
NoInfo == [person_name |-> <<>>, birth_date |-> <<>>, next_birthday |-> <<>>,
           age |-> 0, days_until |-> 0]

Info(name, birth_date, next_birthday, today_) ==
    [person_name   |-> name,
     birth_date    |-> isoformat(birth_date),
     next_birthday |-> isoformat(next_birthday),
     age           |-> next_birthday.y - birth_date.y,
     days_until    |-> DaysBetween(next_birthday, today_)]

\* date.replace(year=...) returns; otherwise it raises ValueError
CanReplaceYear(dt, year) == ValidDate(year, dt.m, dt.d)
ReplaceYear(dt, year) == [dt EXCEPT !.y = year]

\* a birthday that falls on today counted as passed (<= for <)
calculate_next_birthday_today_passed(birth_date, name, today_) ==
    LET current_year == today_.y
    IN  IF ~CanReplaceYear(birth_date, current_year) THEN NoInfo
        ELSE IF ~DateLess(today_, ReplaceYear(birth_date, current_year))
             THEN IF ~CanReplaceYear(birth_date, current_year + 1) THEN NoInfo
                  ELSE Info(name, birth_date, ReplaceYear(birth_date, current_year + 1), today_)
        ELSE Info(name, birth_date, ReplaceYear(birth_date, current_year), today_)

\* days_until counted to this year's birthday, passed or not
calculate_next_birthday_this_year_days(birth_date, name, today_) ==
    LET current_year == today_.y
    IN  IF ~CanReplaceYear(birth_date, current_year) THEN NoInfo
        ELSE IF DateLess(ReplaceYear(birth_date, current_year), today_)
             THEN IF ~CanReplaceYear(birth_date, current_year + 1) THEN NoInfo
                  ELSE [Info(name, birth_date, ReplaceYear(birth_date, current_year + 1), today_)
                            EXCEPT !.days_until =
                                DaysBetween(ReplaceYear(birth_date, current_year), today_)]
        ELSE Info(name, birth_date, ReplaceYear(birth_date, current_year), today_)

\* a February 29 moved to the last day of February in a year that has none
calculate_next_birthday_clamped(birth_date, name, today_) ==
    LET current_year == today_.y
        Clamped(year) == IF CanReplaceYear(birth_date, year) THEN ReplaceYear(birth_date, year)
                         ELSE [y |-> year, m |-> birth_date.m,
                               d |-> DaysInMonth(year, birth_date.m)]
    IN  IF DateLess(Clamped(current_year), today_)
        THEN Info(name, birth_date, Clamped(current_year + 1), today_)
        ELSE Info(name, birth_date, Clamped(current_year), today_)

\* today_ is what date.today() returns at line 417
_calculate_next_birthday(birth_date, name, today_) ==
    LET current_year == today_.y
    IN  IF ~CanReplaceYear(birth_date, current_year) THEN NoInfo     \* ValueError, line 440
        ELSE LET this_year_birthday == ReplaceYear(birth_date, current_year)
             IN  IF DateLess(this_year_birthday, today_)
                 THEN IF ~CanReplaceYear(birth_date, current_year + 1) THEN NoInfo
                      ELSE Info(name, birth_date, ReplaceYear(birth_date, current_year + 1), today_)
                 ELSE Info(name, birth_date, this_year_birthday, today_)

----------------------------------------------------------------------------
(* Idle values: what a specification leaves alone *)

ParseIdle == [dateval |-> <<>>, out |-> NoDate, done |-> TRUE]

PipelineIdle ==
    /\ pc = "idle"
    /\ all_people = <<>>
    /\ surname_filter = <<>>
    /\ today = NoDate
    /\ limit = DefaultLimit
    /\ people_data = <<>>
    /\ idx = 0
    /\ birthdays = <<>>
    /\ result = <<>>
    /\ verdict = <<>>
    /\ people_failed = FALSE
    /\ fetch_failed = FALSE
    /\ count_calls = FALSE
    /\ people_calls = 0
    /\ fetch_calls = <<>>
    /\ data = NoData
    /\ cycle = 0
    /\ prev_nonempty = FALSE

ClassifyIdle ==
    [person |-> [primary_name |-> [t |-> "absent", first_name |-> <<>>, surname_list |-> <<>>],
                 event_ref_list |-> [t |-> "absent", v |-> <<>>],
                 birth_ref_index |-> Absent, death_ref_index |-> Absent],
     fails |-> {}, has |-> FALSE, birth |-> NoDate, alive |-> FALSE, done |-> TRUE]

CalcIdle == [birth |-> NoDate, today |-> NoDate, out |-> NoInfo, done |-> TRUE]

----------------------------------------------------------------------------
(* SpecParse: _parse_dateval applied to datevals of 0 to 4 integers *)

DatevalNumbers == {-1, 0, 1, 2, 4, 5, 6, 12, 13, 28, 29, 30, 31, 32, 99, 100,
                   1900, 1990, 2000, 2023, 9999, 10000}

DatevalInputs ==
    {<<>>, <<15>>, <<15, 6>>, <<1990, 6>>, <<15, 6, 1990, 0>>, <<1990, 6, 15, 1>>,
     <<15, 6, 1990>>, <<1990, 6, 15>>, <<1990, 15, 6>>}
    \cup {<<a, b, c>> : a \in DatevalNumbers, b \in DatevalNumbers, c \in DatevalNumbers}

ParseDateval ==
    /\ ~parse.done
    /\ parse' = [parse EXCEPT !.out = _parse_dateval(parse.dateval), !.done = TRUE]
    /\ UNCHANGED <<pipeline_vars, classify, calc>>


InitParse ==
    /\ PipelineIdle
    /\ classify = ClassifyIdle
    /\ calc = CalcIdle
    /\ parse \in [dateval : DatevalInputs, out : {NoDate}, done : {FALSE}]

NextParse == ParseDateval

SpecParse == InitParse /\ [][NextParse]_vars

----------------------------------------------------------------------------
(* SpecClassify: _has_birth_date, _extract_birth_date and _is_person_alive   *)
(* applied to one person record of the data model under one pattern of      *)
(* failing fetch calls                                                       *)

Tok(s) == JStr(<<s>>)

ClassifyRefs ==
    { RefMap(Tok("b1"), Absent, Absent),                              \* a birth event
      RefMap(Absent, JStr(<<"/", "e", "/", "b2", "/">>), Absent),     \* a path to a birth event
      RefMap(JStr(<<>>), Null, Tok("d1")),                            \* a death event, under hlink
      RefMap(Tok("bx"), Absent, Absent),                              \* a birth event without a date
      RefMap(JInt(5), Absent, Absent),                                \* no string: not resolvable
      RefMap(Tok("zz"), Absent, Absent),                              \* no such event: 404
      RefMap(Tok("nt"), Absent, Absent),                              \* a dated event without a type
      RefMap(Tok("bn"), Absent, Absent) }                             \* a birth event, date: null

EventRefLists == UNION {[1..n -> ClassifyRefs] : n \in 0..MaxEvents}

ClassifyPersons ==
    { Person(NameAbsent, JList(l), bri, dri) :
        l \in EventRefLists,
        bri \in {Absent} \cup {JInt(n) : n \in -1..MaxEvents},
        dri \in {Absent, JInt(-1), JInt(0), JInt(3)} }

InitClassify ==
    /\ PipelineIdle
    /\ parse = ParseIdle
    /\ calc = CalcIdle
    /\ \E p \in ClassifyPersons :
       \E f \in SUBSET (0..Len(p.event_ref_list.v)) :
           classify = [person |-> p, fails |-> f, has |-> FALSE, birth |-> NoDate,
                       alive |-> FALSE, done |-> FALSE]

Classify ==
    /\ ~classify.done
    /\ classify' = [classify EXCEPT
                        !.has = _has_birth_date(classify.person, classify.fails),
                        !.birth = _extract_birth_date(classify.person, classify.fails),
                        !.alive = _is_person_alive(classify.person),
                        !.done = TRUE]
    /\ UNCHANGED <<pipeline_vars, parse, calc>>

NextClassify == Classify

SpecClassify == InitClassify /\ [][NextClassify]_vars

----------------------------------------------------------------------------
(* SpecCalc: _calculate_next_birthday applied to a birth date and a today *)

CalcMonths == {1, 2, 3, 7, 12}
CalcDays == {1, 10, 15, 28, 29, 31}

DatesIn(years) ==
    {dt \in [y : years, m : CalcMonths, d : CalcDays] : ValidDate(dt.y, dt.m, dt.d)}

CalcBirthDates == DatesIn({1990, 2000, 2024})
CalcTodays == DatesIn({2023, 2024, 2025})

Str_Al == <<"A", "l">>

InitCalc ==
    /\ PipelineIdle
    /\ parse = ParseIdle
    /\ classify = ClassifyIdle
    /\ calc \in [birth : CalcBirthDates, today : CalcTodays, out : {NoInfo}, done : {FALSE}]

CalculateNextBirthday ==
    /\ ~calc.done
    /\ calc' = [calc EXCEPT !.out = _calculate_next_birthday(calc.birth, Str_Al, calc.today),
                            !.done = TRUE]
    /\ UNCHANGED <<pipeline_vars, parse, classify>>

NextCalc == CalculateNextBirthday

SpecCalc == InitCalc /\ [][NextCalc]_vars

----------------------------------------------------------------------------
(* get_birthdays *)

Str_Unknown == <<"U", "n", "k", "n", "o", "w", "n">>

\* first name, a space, the first surname, stripped; "Unknown" when that is empty
_get_person_name(person) ==
    LET primary_name == person.primary_name
        first_name == primary_name.first_name
        surname == IF primary_name.surname_list # <<>> THEN primary_name.surname_list[1] ELSE <<>>
        full_name == Strip(first_name \o <<" ">> \o surname)
    IN  IF full_name # <<>> THEN full_name ELSE Str_Unknown

\* person.get("event_ref_list", []) or []
EventRefListOrEmpty(person) ==
    IF person.event_ref_list.t = "list" THEN person.event_ref_list.v ELSE <<>>

RECURSIVE diagnostics_raises(_, _, _)
\* the diagnostics loop of lines 163-179 from person i on: whether it raises.
\* sampled: sampled_event_type is set (an event was fetched, or its fetch failed)
diagnostics_raises(people, i, sampled) ==
    IF i > Len(people) THEN FALSE
    ELSE LET event_ref_list == EventRefListOrEmpty(people[i])
             r == IF event_ref_list # <<>> /\ ~sampled
                  THEN _resolve_event_handle(event_ref_list[1])
                  ELSE Returned(<<>>)
             bri == GetOr(people[i].birth_ref_index, JInt(-1))
         IN  IF r.raised THEN TRUE             \* line 168, outside the inner try
             ELSE IF bri.t # "int" THEN TRUE   \* line 178: None >= 0 raises TypeError
             ELSE diagnostics_raises(people, i + 1, sampled \/ r.handle # <<>>)

RECURSIVE diagnostics_sampled(_, _)
\* the person whose first event the diagnostics loop fetches (line 171), looking
\* from person i on; 0 when it fetches none
diagnostics_sampled(people, i) ==
    IF i > Len(people) THEN 0
    ELSE LET event_ref_list == EventRefListOrEmpty(people[i])
             r == IF event_ref_list # <<>>
                  THEN _resolve_event_handle(event_ref_list[1])
                  ELSE Returned(<<>>)
             bri == GetOr(people[i].birth_ref_index, JInt(-1))
         IN  IF r.raised THEN 0
             ELSE IF r.handle # <<>> THEN i
             ELSE IF bri.t # "int" THEN 0
             ELSE diagnostics_sampled(people, i + 1)

\* a counter of calls after n more calls, in the specifications that count them
Counted(counter, n) == IF count_calls THEN counter + n ELSE counter

\* a birthdays list that outlives the call
birthdays_kept == birthdays

\* birthdays = [] of line 196
birthdays_new == <<>>

\* an outer handler that lets the exception through
outer_except_reraise == [pc |-> "raised", result |-> <<>>]

\* except Exception of lines 266-268: return []
outer_except == [pc |-> "done", result |-> <<>>]

\* the records left in the order of collection
SortByDaysOmitted(list) == list

RECURSIVE InsertByDays(_, _)
\* b placed after every entry whose days_until is <= its own
InsertByDays(sorted, b) ==
    IF sorted = <<>> THEN <<b>>
    ELSE IF sorted[Len(sorted)].info.days_until <= b.info.days_until THEN Append(sorted, b)
    ELSE Append(InsertByDays(SubSeq(sorted, 1, Len(sorted) - 1), b), sorted[Len(sorted)])

RECURSIVE SortByDays(_)
\* list.sort(key=lambda x: x["days_until"]): stable, ascending
SortByDays(list) ==
    IF list = <<>> THEN <<>>
    ELSE InsertByDays(SortByDays(SubSeq(list, 1, Len(list) - 1)), list[Len(list)])

\* list[:n]
SliceTo(list, n) ==
    LET stop == IF n >= 0 THEN (IF n < Len(list) THEN n ELSE Len(list))
                ELSE (IF Len(list) + n > 0 THEN Len(list) + n ELSE 0)
    IN  SubSeq(list, 1, stop)

\* what date.today() may return in the cycle (the cycle does not span midnight)
PipelineTodays ==
    { [y |-> 2024, m |-> 2, d |-> 29], [y |-> 2024, m |-> 7, d |-> 1],
      [y |-> 2024, m |-> 7, d |-> 10], [y |-> 2025, m |-> 7, d |-> 15] }

\* the limit argument: negative, smaller than the list, and the default
PipelineLimits == {-1, 1, DefaultLimit}

Return(r) ==
    /\ pc' = "done"
    /\ result' = r

\* the try of lines 148-153 and the check of lines 155-157
GetPeople ==
    /\ pc = "start"
    /\ \E ok \in BOOLEAN :
          IF ~ok
          THEN /\ people_failed' = TRUE
               /\ Return(<<>>)                    \* line 153
          ELSE /\ people_failed' = FALSE
               /\ IF all_people = <<>>
                  THEN Return(<<>>)               \* line 157
                  ELSE pc' = "diag" /\ result' = result
    /\ people_calls' = Counted(people_calls, 1)   \* line 149, through get_people
    /\ UNCHANGED <<all_people, surname_filter, today, limit, people_data, idx, birthdays,
                   verdict, fetch_failed, fetch_calls, host_vars, count_calls, parse, classify, calc>>

\* lines 159-182; the event it samples is only logged. Line 185 then starts a new
\* people_data list
Diagnostics ==
    /\ pc = "diag"
    /\ IF diagnostics_raises(all_people, 1, FALSE)
       THEN /\ pc' = outer_except.pc
            /\ result' = outer_except.result
            /\ idx' = idx
            /\ people_data' = people_data
       ELSE /\ pc' = "filter"
            /\ idx' = 1
            /\ result' = result
            /\ people_data' = <<>>
    /\ LET sampled == diagnostics_sampled(all_people, 1)
       IN  fetch_calls' = IF sampled = 0 THEN fetch_calls
                          ELSE [fetch_calls EXCEPT ![sampled] = Counted(@, 1)]
    /\ UNCHANGED <<all_people, surname_filter, today, limit, birthdays,
                   verdict, people_failed, fetch_failed, people_calls, host_vars, count_calls,
                   parse, classify, calc>>

\* one person of the list comprehension of lines 185-188
FilterPerson ==
    /\ pc = "filter"
    /\ idx <= Len(all_people)
    /\ \E fails \in SUBSET (0..Len(all_people[idx].event_ref_list.v)) :
          /\ IF _has_birth_date(all_people[idx], fails)
             THEN people_data' = Append(people_data, idx) /\ verdict' = verdict
             ELSE /\ people_data' = people_data
                  /\ verdict' = [verdict EXCEPT ![idx] = "prefiltered"]
          /\ fetch_failed' = (fetch_failed \/ fails # {})
          /\ fetch_calls' = [fetch_calls EXCEPT
                                 ![idx] = Counted(@, classifier_gets(all_people[idx], FALSE, fails))]
    /\ idx' = idx + 1
    /\ UNCHANGED <<pc, all_people, surname_filter, today, limit, birthdays, result,
                   people_failed, people_calls, host_vars, count_calls, parse, classify, calc>>

\* lines 192-222: nobody has a birth date: return []; otherwise read the clock and
\* go on to the loop
FilterDone ==
    /\ pc = "filter"
    /\ idx > Len(all_people)
    /\ IF people_data = <<>>
       THEN Return(<<>>) /\ idx' = idx /\ today' = today /\ birthdays' = birthdays
       ELSE /\ pc' = "loop" /\ idx' = 1 /\ result' = result
            /\ birthdays' = birthdays_new        \* line 196
            /\ today' \in PipelineTodays          \* line 201: today = date.today()
    /\ UNCHANGED <<all_people, surname_filter, limit, people_data,
                   verdict, people_failed, fetch_failed, people_calls, fetch_calls,
                   host_vars, count_calls, parse, classify, calc>>

\* what one pass of the loop of lines 224-255 does with a person: the verdict, and
\* the entry it appends when the verdict is "emitted"
LoopBody(person, fails, today_) ==
    LET name == _get_person_name(person)
        birth_date == _extract_birth_date(person, fails)
        next_birthday_info == _calculate_next_birthday(birth_date, name, today_)
    IN  IF surname_filter # <<>> /\ ~Contains(Lower(surname_filter), Lower(name))
        THEN [verdict |-> "filtered", info |-> NoInfo]
        ELSE IF birth_date = NoDate THEN [verdict |-> "no_birth", info |-> NoInfo]
        ELSE IF ~_is_person_alive(person) THEN [verdict |-> "deceased", info |-> NoInfo]
        ELSE IF next_birthday_info = NoInfo THEN [verdict |-> "uncomputable", info |-> NoInfo]
        ELSE [verdict |-> "emitted", info |-> next_birthday_info]

\* one pass of the loop of lines 224-255
LoopPerson ==
    /\ pc = "loop"
    /\ idx <= Len(people_data)
    /\ \E fails \in SUBSET (0..Len(all_people[people_data[idx]].event_ref_list.v)) :
          LET src == people_data[idx]
              body == LoopBody(all_people[src], fails, today)
          IN  /\ verdict' = [verdict EXCEPT ![src] = body.verdict]
              /\ birthdays' = IF body.verdict = "emitted"
                              THEN Append(birthdays, [src |-> src, info |-> body.info])
                              ELSE birthdays
              /\ fetch_failed' = (fetch_failed \/ fails # {})
              /\ fetch_calls' = [fetch_calls EXCEPT     \* line 234, not reached when filtered
                                     ![src] = Counted(@, IF body.verdict = "filtered" THEN 0
                                                         ELSE classifier_gets(all_people[src], TRUE, fails))]
    /\ idx' = idx + 1
    /\ UNCHANGED <<pc, all_people, surname_filter, today, limit, people_data, result,
                   people_failed, people_calls, host_vars, count_calls, parse, classify, calc>>

\* lines 261-264: sort and return the first n entries, n being the caller's limit
FinishWith(n) ==
    /\ pc = "loop"
    /\ idx > Len(people_data)
    /\ birthdays' = SortByDays(birthdays)
    /\ limit' = n
    /\ Return(SliceTo(birthdays', n))
    /\ UNCHANGED <<all_people, surname_filter, today, people_data, idx,
                   verdict, people_failed, fetch_failed, people_calls, fetch_calls,
                   host_vars, count_calls, parse, classify, calc>>

\* limit is any of the caller's values
Finish == \E n \in PipelineLimits : FinishWith(n)

----------------------------------------------------------------------------
(* Spec: one call of get_birthdays on people records of the data model;     *)
(* SpecMalformed: the same on payloads that also hold malformed records     *)

Str_Kay == <<"K", "a", "y">>
Str_Bo == <<"B", "o">>

Ref_b1 == RefMap(Tok("b1"), Absent, Absent)
Ref_b2 == RefMap(Absent, JStr(<<"/", "e", "/", "b2", "/">>), Absent)
Ref_bl == RefMap(Tok("bl"), Absent, Absent)
Ref_d1 == RefMap(JStr(<<>>), Null, Tok("d1"))

PipelinePersons ==
    { \* living, born 1990-07-10
      Person(Name(Str_Al, <<Str_Kay>>), JList(<<Ref_b1>>), JInt(0), JInt(-1)),
      \* living, born 1985-07-01; the death event of somebody else comes first
      Person(Name(Str_Bo, <<>>), JList(<<Ref_d1, Ref_b2>>), Absent, Absent),
      \* deceased, with a birth event
      Person(Name(Str_Al, <<Str_Kay>>), JList(<<Ref_b1>>), JInt(0), JInt(3)),
      \* deceased, the death event being entry 0; birth_ref_index out of range
      Person(NameAbsent, JList(<<Ref_d1, Ref_b2>>), JInt(5), JInt(0)),
      \* a dated event that is no birth
      Person(Name(Str_Al, <<Str_Kay>>), JList(<<Ref_d1>>), JInt(0), JInt(-1)),
      \* living, born on 2000-02-29
      Person(NameAbsent, JList(<<Ref_bl>>), JInt(0), JInt(-1)),
      \* no events
      Person(Name(Str_Bo, <<Str_Kay>>), ListAbsent, Absent, JInt(-1)) }

MalformedPersons ==
    { \* birth_ref_index: null
      Person(Name(Str_Al, <<Str_Kay>>), JList(<<Ref_b1>>), Null, JInt(-1)),
      \* birth_ref_index: "0"
      Person(Name(Str_Al, <<Str_Kay>>), JList(<<Ref_b1>>), JStr(<<"0">>), JInt(-1)),
      \* the first event reference is a string, not a mapping
      Person(Name(Str_Al, <<Str_Kay>>), JList(<<RefStr, Ref_b1>>), JInt(1), JInt(-1)),
      \* the second event reference is a string, not a mapping
      Person(Name(Str_Al, <<Str_Kay>>), JList(<<Ref_b1, RefStr>>), JInt(1), JInt(-1)),
      \* event_ref_list: null
      Person(Name(Str_Al, <<Str_Kay>>), ListNull, JInt(-1), JInt(-1)) }

Malformed(person) ==
    \/ person.birth_ref_index.t \in {"null", "str"}
    \/ person.event_ref_list.t = "null"
    \/ \E j \in 1..Len(person.event_ref_list.v) : person.event_ref_list.v[j].t = "str"

WellFormedSample ==
    {p \in PipelinePersons : p.event_ref_list.t = "list" /\ p.death_ref_index # JInt(0)
                             /\ p.primary_name.t = "dict" /\ p.primary_name.first_name = Str_Al}

\* the surname_filter argument of GrampsWebAPI()
FilterArguments == {<<>>, <<" ", "K", "a", " ">>}

PeopleLists(persons) == UNION {[1..n -> persons] : n \in 0..MaxPeople}

\* the instance after __init__ (line 17 strips the filter), at the call of get_birthdays
InitPipeline(persons) ==
    /\ pc = "start"
    /\ all_people \in PeopleLists(persons)
    /\ surname_filter \in {Strip(f) : f \in FilterArguments}
    /\ today = NoDate
    /\ limit = DefaultLimit
    /\ people_data = <<>>
    /\ idx = 0
    /\ birthdays = <<>>
    /\ result = <<>>
    /\ verdict = [i \in 1..Len(all_people) |-> "pending"]
    /\ people_failed = FALSE
    /\ fetch_failed = FALSE
    /\ people_calls = 0
    /\ fetch_calls = [i \in 1..Len(all_people) |-> 0]
    /\ data = NoData
    /\ cycle = 0
    /\ prev_nonempty = FALSE
    /\ parse = ParseIdle
    /\ classify = ClassifyIdle
    /\ calc = CalcIdle

Init == InitPipeline(PipelinePersons) /\ count_calls = FALSE

InitMalformed == InitPipeline(WellFormedSample \cup MalformedPersons) /\ count_calls = FALSE

\* the same call with its GET calls counted
InitCalls == InitPipeline(PipelinePersons) /\ count_calls = TRUE

Next ==
    \/ GetPeople
    \/ Diagnostics
    \/ FilterPerson
    \/ FilterDone
    \/ LoopPerson
    \/ Finish

Spec == Init /\ [][Next]_vars

SpecMalformed == InitMalformed /\ [][Next]_vars

SpecCalls == InitCalls /\ [][Next]_vars

----------------------------------------------------------------------------
(* SpecCycles: the coordinator refreshing MaxCycles times through one          *)
(* GrampsWebAPI instance, the upstream data changing between the cycles, and   *)
(* the sensors reading what the coordinator holds                              *)

\* the value of a sensor: None, an int or a str
NoneValue == [t |-> "none", s |-> <<>>, n |-> 0]

\* dt.strftime("%d.%m.%Y")
strftime_dmy(dt) == Digits(dt.d, 2) \o <<".">> \o Digits(dt.m, 2) \o <<".">> \o Digits(dt.y, 4)

\* GrampsWebNextBirthdaySensor.native_value of the sensor of _index = index
GrampsWebNextBirthdaySensor_native_value(index) ==
    IF data.t = "none" \/ data.v = <<>> THEN NoneValue              \* not self.coordinator.data
    ELSE IF index >= Len(data.v) THEN NoneValue
    ELSE LET birthday == data.v[index + 1]
             name == birthday.person_name
             next_birthday == birthday.next_birthday
             ordinal == index + 1
         IN  IF next_birthday # <<>>
             THEN JStr(name \o <<" ", "-", " ">> \o strftime_dmy(fromisoformat(next_birthday))
                       \o <<" ", "(">> \o Digits(ordinal, 1) \o <<")">>)
             ELSE JStr(name)

\* GrampsWebAllBirthdaysSensor.native_value
GrampsWebAllBirthdaysSensor_native_value ==
    IF data.t = "none" \/ data.v = <<>> THEN JInt(0) ELSE JInt(Len(data.v))

\* the sensors of range(5)
SensorIndexes == 0..4

\* the upstream payloads of a cycle: nobody, one living person, two living people
\* the later born first, a person born on February 29 and a deceased one
CyclePeopleLists ==
    { <<>>,
      <<Person(Name(Str_Al, <<Str_Kay>>), JList(<<Ref_b1>>), JInt(0), JInt(-1))>>,
      <<Person(Name(Str_Al, <<Str_Kay>>), JList(<<Ref_b1>>), JInt(0), JInt(-1)),
        Person(Name(Str_Bo, <<>>), JList(<<Ref_d1, Ref_b2>>), Absent, Absent)>>,
      <<Person(NameAbsent, JList(<<Ref_bl>>), JInt(0), JInt(-1)),
        Person(Name(Str_Al, <<Str_Kay>>), JList(<<Ref_b1>>), JInt(0), JInt(3))>> }

\* async_setup_entry: the API built without a surname filter, the coordinator
\* holding no data yet
InitCycles ==
    /\ pc = "held"
    /\ all_people = <<>>
    /\ surname_filter = <<>>
    /\ today = NoDate
    /\ limit = DefaultLimit
    /\ people_data = <<>>
    /\ idx = 0
    /\ birthdays = <<>>
    /\ result = <<>>
    /\ verdict = <<>>
    /\ people_failed = FALSE
    /\ fetch_failed = FALSE
    /\ count_calls = FALSE
    /\ people_calls = 0
    /\ fetch_calls = <<>>
    /\ data = NoData
    /\ cycle = 0
    /\ prev_nonempty = FALSE
    /\ parse = ParseIdle
    /\ classify = ClassifyIdle
    /\ calc = CalcIdle

\* _async_update_data, line 73: the refresh calls self.api.get_birthdays() on what
\* the upstream holds by now; the ghosts of the call start afresh
Refresh ==
    /\ pc = "held"
    /\ cycle < MaxCycles
    /\ pc' = "start"
    /\ all_people' \in CyclePeopleLists
    /\ today' = NoDate
    /\ limit' = DefaultLimit
    /\ verdict' = [i \in 1..Len(all_people') |-> "pending"]
    /\ people_failed' = FALSE
    /\ fetch_failed' = FALSE
    /\ people_calls' = 0
    /\ fetch_calls' = [i \in 1..Len(all_people') |-> 0]
    /\ UNCHANGED <<surname_filter, people_data, idx, birthdays, result, host_vars, count_calls,
                   parse, classify, calc>>

\* get_birthdays called without arguments: limit = 50
FinishDefault == FinishWith(DefaultLimit)

\* the dicts of the returned list
Records(r) == [k \in 1..Len(r) |-> r[k].info]

\* _async_update_data, lines 73-75: the return value of get_birthdays becomes
\* coordinator.data; an exception becomes UpdateFailed and data stays
AsyncUpdateData ==
    /\ pc \in {"done", "raised"}
    /\ pc' = "held"
    /\ data' = IF pc = "done" THEN HeldData(Records(result)) ELSE data
    /\ cycle' = cycle + 1
    /\ prev_nonempty' = (data.t = "list" /\ data.v # <<>>)
    /\ UNCHANGED <<all_people, surname_filter, today, limit, people_data, idx, birthdays,
                   result, verdict, people_failed, fetch_failed, count_calls, people_calls,
                   fetch_calls, parse, classify, calc>>

NextCycles ==
    \/ Refresh
    \/ GetPeople
    \/ Diagnostics
    \/ FilterPerson
    \/ FilterDone
    \/ LoopPerson
    \/ FinishDefault
    \/ AsyncUpdateData

SpecCycles == InitCycles /\ [][NextCycles]_vars

----------------------------------------------------------------------------
(* Claims about _parse_dateval (SpecParse) *)

\* the three layouts as the claim lists them: [day, month, year], [year, month, day],
\* [year, day, month]
ClaimLayouts ==
    << [d |-> 1, m |-> 2, y |-> 3], [y |-> 1, m |-> 2, d |-> 3], [y |-> 1, d |-> 2, m |-> 3] >>

Plausible(v, L) ==
    /\ v[L.y] >= 100
    /\ v[L.m] \in 1..12
    /\ v[L.d] \in 1..31

PlausibleLayouts(v) == {k \in 1..3 : Plausible(v, ClaimLayouts[k])}

FirstPlausible(v) ==
    ClaimLayouts[CHOOSE k \in PlausibleLayouts(v) : \A j \in PlausibleLayouts(v) : k <= j]

Built(v, L) == [y |-> v[L.y], m |-> v[L.m], d |-> v[L.d]]

\* C5 as stated: _parse_dateval returns the date built from the first layout, in the
\* priority day-month-year, year-month-day, year-day-month, whose year is >= 100,
\* month in 1..12 and day in 1..31, and unparseable when the input has fewer than
\* three elements or no layout passes.
C5_FirstPlausibleLayoutReturned ==
    parse.done =>
        IF Len(parse.dateval) < 3 \/ PlausibleLayouts(parse.dateval) = {}
        THEN parse.out = NoDate
        ELSE parse.out = Built(parse.dateval, FirstPlausible(parse.dateval))

\* C5 amended: the first plausible layout decides alone: its date is returned when it
\* is a date of the calendar (day within the month, year <= 9999), and unparseable
\* is returned when it is not, when the input has fewer than three elements, or when
\* no layout is plausible.
C5_FirstPlausibleLayoutDecides ==
    parse.done =>
        IF Len(parse.dateval) < 3 \/ PlausibleLayouts(parse.dateval) = {}
        THEN parse.out = NoDate
        ELSE LET dt == Built(parse.dateval, FirstPlausible(parse.dateval))
             IN  parse.out = IF ValidDate(dt.y, dt.m, dt.d) THEN dt ELSE NoDate

\* two layouts are plausible and the earlier one, year-month-day, is returned
C5_Witness ==
    /\ parse.done
    /\ parse.dateval = <<2000, 5, 6>>
    /\ PlausibleLayouts(parse.dateval) = {2, 3}
    /\ parse.out = [y |-> 2000, m |-> 5, d |-> 6]

----------------------------------------------------------------------------
(* Claims about the person classifier (SpecClassify) *)

BirthRefValid(person) ==
    LET bri == GetOr(person.birth_ref_index, JInt(-1))
    IN  0 <= bri.n /\ bri.n < Len(person.event_ref_list.v)

\* the candidates in search order: 0 is the birth_ref_index entry, j the j-th entry
CandidatePositions(person) ==
    (IF BirthRefValid(person) THEN {0} ELSE {}) \cup (1..Len(person.event_ref_list.v))

CandidateRef(person, pos) ==
    IF pos = 0
    THEN person.event_ref_list.v[GetOr(person.birth_ref_index, JInt(-1)).n + 1]
    ELSE person.event_ref_list.v[pos]

\* the candidate's reference resolves and its fetch succeeds
Fetched(person, fails, pos) ==
    LET r == _resolve_event_handle(CandidateRef(person, pos))
    IN  ~r.raised /\ r.handle # <<>> /\ pos \notin fails /\ r.handle \in EventHandles

CandidateEvent(person, pos) ==
    EventStore[_resolve_event_handle(CandidateRef(person, pos)).handle]

HasParseableDate(event_data) ==
    event_data.date.t = "dict" /\ _parse_dateval(event_data.date.dateval) # NoDate

IsBirthLabel(event_data) ==
    event_data.type.t # "absent" /\ Contains(Str_birth, Lower(event_data.type.s))

Qualifying(person, fails) ==
    {pos \in CandidatePositions(person) :
        /\ Fetched(person, fails, pos)
        /\ IsBirthLabel(CandidateEvent(person, pos))
        /\ HasParseableDate(CandidateEvent(person, pos))}

\* C6: _extract_birth_date returns the parsed date of the first qualifying candidate,
\* the birth_ref_index entry first and then the entries in order; a candidate
\* qualifies when it resolves, its fetch succeeds, its label contains "birth" and its
\* dateval parses; failed fetches are skipped; none when nothing qualifies; never
\* the date of a non-birth event.
C6_ExtractFirstQualifying ==
    classify.done =>
        LET Q == Qualifying(classify.person, classify.fails)
        IN  IF Q = {} THEN classify.birth = NoDate
            ELSE LET first == CHOOSE pos \in Q : \A q \in Q : pos <= q
                 IN  classify.birth =
                        _parse_dateval(CandidateEvent(classify.person, first).date.dateval)

\* the fetch for the birth_ref_index entry, a birth event, fails and the date still
\* comes from a later entry, while an earlier entry carries a dated non-birth event
C6_Witness ==
    /\ classify.done
    /\ 0 \in classify.fails
    /\ BirthRefValid(classify.person)
    /\ classify.birth # NoDate
    /\ \E pos \in CandidatePositions(classify.person) :
          /\ Fetched(classify.person, classify.fails, pos)
          /\ ~IsBirthLabel(CandidateEvent(classify.person, pos))
          /\ HasParseableDate(CandidateEvent(classify.person, pos))
          /\ \A q \in Qualifying(classify.person, classify.fails) : pos < q

----------------------------------------------------------------------------
(* Claims about _calculate_next_birthday (SpecCalc) *)

\* C8: next_birthday is the birth month/day in the current year when that is not
\* before today, else in the next year; so next_birthday >= today; and age is
\* next_birthday.year - birth_date.year.
C8_NextBirthday ==
    (calc.done /\ calc.out # NoInfo) =>
        LET next == fromisoformat(calc.out.next_birthday)
            notBefore == \/ calc.birth.m > calc.today.m
                         \/ calc.birth.m = calc.today.m /\ calc.birth.d >= calc.today.d
        IN  /\ next.m = calc.birth.m /\ next.d = calc.birth.d
            /\ next.y = IF notBefore THEN calc.today.y ELSE calc.today.y + 1
            /\ Ordinal(next) >= Ordinal(calc.today)
            /\ calc.out.age = next.y - calc.birth.y
            /\ fromisoformat(calc.out.birth_date) = calc.birth

\* born July 10, today July 15 of 2024: July 10 of 2025, age 2025 - 1990
C8_Witness ==
    /\ calc.done
    /\ calc.birth = [y |-> 1990, m |-> 7, d |-> 10]
    /\ calc.today = [y |-> 2024, m |-> 7, d |-> 15]
    /\ calc.out.next_birthday = <<"2", "0", "2", "5", "-", "0", "7", "-", "1", "0">>
    /\ calc.out.age = 35

\* C9: days_until is (next_birthday - today) in days, is >= 0, and is 0 exactly when
\* today's month and day are the birth date's.
C9_DaysUntil ==
    (calc.done /\ calc.out # NoInfo) =>
        /\ calc.out.days_until =
              Ordinal(fromisoformat(calc.out.next_birthday)) - Ordinal(calc.today)
        /\ calc.out.days_until >= 0
        /\ calc.out.days_until = 0 <=>
              (calc.today.m = calc.birth.m /\ calc.today.d = calc.birth.d)

\* the birthday is today: 0 days; (the day after, it is a year away: see C8)
C9_Witness ==
    /\ calc.done
    /\ calc.out # NoInfo
    /\ calc.birth.m = calc.today.m /\ calc.birth.d = calc.today.d
    /\ calc.birth.y < calc.today.y
    /\ calc.out.days_until = 0


----------------------------------------------------------------------------
(* Claims about get_birthdays (Spec, SpecMalformed) *)

\* the person has an event reference that resolves to a birth event of the store
\* whose dateval parses to the date that isoformat writes as birth_date
HasBirthEventDated(person, birth_date) ==
    \E j \in 1..Len(person.event_ref_list.v) :
        LET r == _resolve_event_handle(person.event_ref_list.v[j])
        IN  /\ ~r.raised
            /\ r.handle \in EventHandles
            /\ IsBirthLabel(EventStore[r.handle])
            /\ HasParseableDate(EventStore[r.handle])
            /\ birth_date = isoformat(_parse_dateval(EventStore[r.handle].date.dateval))

\* C1: every record get_birthdays returns belongs to an input person who has a
\* resolvable, fetched birth event with a parseable dateval, the record's birth_date
\* being that date, and whose death_ref_index is -1 or missing.
C1_OnlyLivingWithBirthEvent ==
    \A k \in 1..Len(result) :
        LET person == all_people[result[k].src]
        IN  /\ HasBirthEventDated(person, result[k].info.birth_date)
            /\ person.death_ref_index \in {Absent, JInt(-1)}

\* one of two people with a birth event is returned, the other is deceased
C1_Witness ==
    /\ pc = "done"
    /\ Len(result) = 1
    /\ \E i \in 1..Len(all_people) :
          /\ verdict[i] = "deceased"
          /\ all_people[i].death_ref_index = JInt(0)

SortedByDays(list) ==
    \A k \in 1..(Len(list) - 1) : list[k].info.days_until <= list[k + 1].info.days_until

\* C2 as stated: for every input and every value of limit the returned list is sorted
\* ascending by days_until and is no longer than limit.
C2_SortedAndWithinLimit ==
    pc = "done" => SortedByDays(result) /\ Len(result) <= limit

\* C2 amended: the returned list is sorted ascending by days_until for every limit,
\* and is no longer than limit for every limit >= 0.
C2_SortedAndWithinNonNegativeLimit ==
    pc = "done" => /\ SortedByDays(result)
                   /\ limit >= 0 => Len(result) <= limit

\* two records were collected in the other order, sorted, and cut to limit = 1
C2_Witness ==
    /\ pc = "done"
    /\ limit = 1
    /\ Len(birthdays) = 2
    /\ birthdays[1].src > birthdays[2].src
    /\ birthdays[1].info.days_until < birthdays[2].info.days_until
    /\ result = <<birthdays[1]>>

\* C3: get_birthdays never raises: whatever fails upstream and whatever the payload,
\* it returns a list, and the empty list when the list_people call failed.
C3_NeverRaises ==
    /\ pc # "raised"
    /\ pc = "done" => DOMAIN result = 1..Len(result)
    /\ (pc = "done" /\ people_failed) => result = <<>>

\* the payload would have raised in the diagnostics, but list_people failed: []
C3_Witness ==
    /\ pc = "done"
    /\ people_failed
    /\ diagnostics_raises(all_people, 1, FALSE)
    /\ result = <<>>

\* what get_birthdays returns for a person taken alone, no fetch failing, on day t
ExpectedRecords(person, t) ==
    IF _has_birth_date(person, {}) /\ LoopBody(person, {}, t).verdict = "emitted"
    THEN {LoopBody(person, {}, t).info}
    ELSE {}

RecordsOf(i) == {result[k].info : k \in {n \in 1..Len(result) : result[n].src = i}}

\* C4 as stated, for the cycles in which no call fails and limit does not cut the
\* list: a malformed person record is skipped alone, the records returned for the
\* other people being those of the list without it.
C4_MalformedSkippedAlone ==
    (pc = "done" /\ ~people_failed /\ ~fetch_failed /\ limit >= Len(all_people)) =>
        \A i \in 1..Len(all_people) :
            ~Malformed(all_people[i]) =>
                \A t \in (IF today = NoDate THEN PipelineTodays ELSE {today}) :
                    RecordsOf(i) = ExpectedRecords(all_people[i], t)

\* C7: _is_person_alive is true for death_ref_index -1 and false for any other
\* integer, 0 included, whatever the death event is; so a person with
\* death_ref_index 3 (or 0) is never in the output, whatever the birth events.
C7_DeceasedNeverReturned ==
    \A i \in 1..Len(all_people) :
        LET dri == all_people[i].death_ref_index
        IN  /\ (dri.t = "int" /\ dri.n # -1) =>
                  /\ verdict[i] \notin {"emitted", "uncomputable"}
                  /\ \A k \in 1..Len(birthdays) : birthdays[k].src # i
                  /\ \A k \in 1..Len(result) : result[k].src # i
            /\ dri = JInt(-1) => verdict[i] # "deceased"

\* a person with death_ref_index 3, whose only event is a dated birth event, was
\* skipped as deceased, and somebody else was returned
C7_Witness ==
    /\ pc = "done"
    /\ result # <<>>
    /\ \E i \in 1..Len(all_people) :
          /\ all_people[i].death_ref_index = JInt(3)
          /\ HasParseableDate(EventStore[<<"b1">>])
          /\ all_people[i].event_ref_list.v = <<Ref_b1>>
          /\ verdict[i] = "deceased"

----------------------------------------------------------------------------
(* Claims about the calls of one refresh cycle (SpecCalls) *)

\* C11 as stated: one call of get_birthdays issues exactly one list_people call, and
\* for each person at most len(event_ref_list) fetch_event calls.
C11_CallsBounded ==
    /\ pc # "start" => people_calls = 1
    /\ \A i \in 1..Len(all_people) :
           fetch_calls[i] <= Len(EventRefListOrEmpty(all_people[i]))

----------------------------------------------------------------------------
(* Claims about the refresh cycles (SpecCycles) *)

RECURSIVE Collected(_, _, _)
\* the entries a call on people, no call failing, collects from person i on, on day t
Collected(people, i, t) ==
    IF i > Len(people) THEN <<>>
    ELSE LET body == LoopBody(people[i], {}, t)
         IN  (IF _has_birth_date(people[i], {}) /\ body.verdict = "emitted"
              THEN <<[src |-> i, info |-> body.info]>>
              ELSE <<>>) \o Collected(people, i + 1, t)

\* what a new instance returns for the payload people on day t with limit n, no call
\* failing: a function of these alone
FreshResult(people, t, n) ==
    IF people = <<>> \/ diagnostics_raises(people, 1, FALSE) THEN <<>>
    ELSE IF \A i \in 1..Len(people) : ~_has_birth_date(people[i], {}) THEN <<>>
    ELSE Records(SliceTo(SortByDays(Collected(people, 1, t)), n))

\* C12: after every refresh the coordinator holds exactly what this cycle's
\* get_birthdays returned; after a cycle whose list_people call failed the five rank
\* sensors read None and the aggregate sensor reads 0, whatever was held before;
\* and after a cycle without failures it holds what a new instance returns for this
\* cycle's payload and date, whatever the earlier cycles were.
C12_CycleIndependent ==
    (pc = "held" /\ cycle > 0) =>
        /\ data = HeldData(Records(result))
        /\ people_failed =>
              /\ \A index \in SensorIndexes :
                     GrampsWebNextBirthdaySensor_native_value(index) = NoneValue
              /\ GrampsWebAllBirthdaysSensor_native_value = JInt(0)
        /\ (~people_failed /\ ~fetch_failed) =>
              data.v = FreshResult(all_people, today, limit)

\* the second refresh failed at list_people while the host held records: the first
\* rank sensor, which read a name and a date, reads None, the aggregate sensor 0
C12_Witness ==
    /\ pc = "held"
    /\ cycle = 2
    /\ prev_nonempty
    /\ people_failed
    /\ data = HeldData(<<>>)
    /\ GrampsWebNextBirthdaySensor_native_value(0) = NoneValue
    /\ GrampsWebAllBirthdaysSensor_native_value = JInt(0)

----------------------------------------------------------------------------
(* Claims about birth dates on February 29 (Spec) *)

\* the year the next birthday falls in: the current year, or the next one when
\* February 29 of the current year is before today or does not exist
TargetYear(t) ==
    IF IsLeap(t.y) /\ ~DateLess([y |-> t.y, m |-> 2, d |-> 29], t) THEN t.y ELSE t.y + 1

\* a living person whose birth event is dated February 29
LeapBorn(person) ==
    LET birth_date == _extract_birth_date(person, {})
    IN  birth_date.m = 2 /\ birth_date.d = 29 /\ _is_person_alive(person)

\* C13: for a living person born on February 29, once the clock is read and the
\* target year is no leap year, _calculate_next_birthday returns None and nothing
\* is raised, the person is in neither the collected nor the returned list, and,
\* no call failing and limit not cutting the list, everybody else's records are
\* those they have alone.
C13_LeapDayUncomputable ==
    \A i \in 1..Len(all_people) :
        (LeapBorn(all_people[i]) /\ today # NoDate /\ ~IsLeap(TargetYear(today))) =>
            /\ _calculate_next_birthday(_extract_birth_date(all_people[i], {}),
                                        _get_person_name(all_people[i]), today) = NoInfo
            /\ pc # "raised"
            /\ verdict[i] # "emitted"
            /\ \A k \in 1..Len(birthdays) : birthdays[k].src # i
            /\ \A k \in 1..Len(result) : result[k].src # i
            /\ (pc = "done" /\ ~people_failed /\ ~fetch_failed) =>
                  /\ verdict[i] \in {"uncomputable", "filtered"}
                  /\ limit >= Len(all_people) =>
                        \A j \in (1..Len(all_people)) \ {i} :
                            RecordsOf(j) = ExpectedRecords(all_people[j], today)

\* on 2024-07-01 February 29 of the leap year 2024 has passed and 2025 has none: the
\* person born on 2000-02-29 was dropped as uncomputable, the other one returned
C13_Witness ==
    /\ pc = "done"
    /\ today = [y |-> 2024, m |-> 7, d |-> 1]
    /\ Len(result) = 1
    /\ \E i \in 1..Len(all_people) :
          /\ LeapBorn(all_people[i])
          /\ verdict[i] = "uncomputable"
          /\ result[1].src # i

----------------------------------------------------------------------------
(* Claims about single triples and about stopping early (SpecParse) *)

Triple_15_6_1990 == <<15, 6, 1990>>

\* C14 as stated: _parse_dateval returns None for [15, 6, 1990], each of the three
\* orderings assigning year = 15.
C14_Unparseable ==
    (parse.done /\ parse.dateval = Triple_15_6_1990) =>
        /\ parse.out = NoDate
        /\ \A k \in 1..3 : parse.dateval[ClaimLayouts[k].y] = 15

\* C14 amended: _parse_dateval returns 1990-06-15 for [15, 6, 1990]: the first
\* ordering, [day, month, year], assigns year = 1990, month = 6, day = 15 and is
\* accepted; the two later orderings are the ones that assign year = 15.
C14_ParsedAsDayMonthYear ==
    (parse.done /\ parse.dateval = Triple_15_6_1990) =>
        /\ parse.out = [y |-> 1990, m |-> 6, d |-> 15]
        /\ parse.dateval[ClaimLayouts[1].y] = 1990
        /\ FirstPlausible(parse.dateval) = ClaimLayouts[1]
        /\ \A k \in 2..3 : parse.dateval[ClaimLayouts[k].y] = 15

\* the parser has run on [15, 6, 1990] and returned a date
C14_Witness ==
    /\ parse.done
    /\ parse.dateval = Triple_15_6_1990
    /\ parse.out # NoDate

\* the layouts that are plausible and a date of the calendar
ValidLayouts(v) ==
    {k \in PlausibleLayouts(v) :
        ValidDate(Built(v, ClaimLayouts[k]).y, Built(v, ClaimLayouts[k]).m,
                  Built(v, ClaimLayouts[k]).d)}

\* C15: stopping at the first plausible layout loses no date: when that layout is no
\* date of the calendar no later layout is plausible and valid, and the result is
\* the first layout in priority order that is plausible and valid, None when there
\* is none.
C15_StoppingLosesNoDate ==
    (parse.done /\ Len(parse.dateval) >= 3) =>
        LET v == parse.dateval
            V == ValidLayouts(v)
            first == CHOOSE k \in PlausibleLayouts(v) : \A j \in PlausibleLayouts(v) : k <= j
        IN  /\ (PlausibleLayouts(v) # {} /\ first \notin V) => V = {}
            /\ parse.out = IF V = {} THEN NoDate
                           ELSE Built(v, ClaimLayouts[CHOOSE k \in V : \A j \in V : k <= j])

\* the first plausible layout is year-month-day and is no date of the calendar
\* (February 30): None is returned, and year-day-month is not plausible
C15_Witness ==
    /\ parse.done
    /\ parse.dateval = <<2000, 2, 30>>
    /\ PlausibleLayouts(parse.dateval) = {2}
    /\ ValidLayouts(parse.dateval) = {}
    /\ parse.out = NoDate

====
